---- MODULE Spec2Model ----
(***************************************************************************)
(* Hospital CRM on a property graph (crm-neo4j-graph-database.ipynb).      *)
(*                                                                         *)
(* The notebook defines thirteen transaction functions, each running one   *)
(* Cypher statement, and calls them through session.write_transaction and  *)
(* session.read_transaction.  The graph is a set of nodes (internal id,    *)
(* label, property map) and a set of relationships (internal id, type,     *)
(* start node, end node).  The Cypher clauses the statements use (MATCH,   *)
(* MERGE, SET, RETURN, COUNT, ORDER BY) are operators over that graph.     *)
(*                                                                         *)
(* Spec is the functions called in any order on an open driver; Flow is    *)
(* the notebook run from its first cell to its last, with the failures a   *)
(* call may meet and the driver's retries of a managed transaction.        *)
(***************************************************************************)
EXTENDS Integers, FiniteSets, Sequences, TLC

VARIABLES
    graph,      \* the database: [nodes, rels]
    last,       \* the transaction function called last and its arguments
    raised,     \* whether that call raised an exception
    result,     \* what that call returned (the record list of a query)
    driver,     \* the connection object: "none", "open" or "closed"
    pc,         \* the statement of the notebook that runs next
    attempts,   \* how often the transaction function of the last call was run
    error       \* the exception that ended the run of the notebook, or None

vars == <<graph, last, raised, result, driver, pc, attempts, error>>

\* Bounds of the model: the store holds at most this many nodes and
\* relationships, and the retry time of a managed transaction is over after
\* at most this many runs of the transaction function.
MaxNodes == 4
MaxRels == 4
MaxAttempts == 3

\* Python's None, which the driver passes to Cypher as null.
None == "None"

-----------------------------------------------------------------------------
\* Inputs.  The identifiers and attribute values are the ones of the
\* notebook's population cells; None stands for a missing identifier.

PatientIds == {"P001", "P002"}
DoctorIds == {"D001", "D002"}
AppointmentIds == {"A001", "A002"}
TreatmentIds == {"T001"}
MedicationIds == {"M001"}

PatientAttrs == {<<"Alice Smith", 30, "555-1234">>, <<"Bob Johnson", 45, "555-5678">>}
DoctorAttrs == {<<"Dr. Emily Brown", "Cardiology">>, <<"Dr. John Doe", "Neurology">>}
AppointmentAttrs == {<<"2023-10-15", "10:00">>, <<"2023-10-16", "14:00">>}
TreatmentAttrs == {"Heart Disease Treatment", "Stroke Rehabilitation"}
MedicationAttrs == {<<"Aspirin", "100mg daily">>, <<"Beta Blockers", "50mg daily">>}

OrNone(S) == S \cup {None}

\* The argument tuples the calls of the model draw from.  A patient, an
\* appointment, a treatment and a medication are created with the attributes
\* the notebook gives them; a doctor with either attribute tuple, so that two
\* doctors may carry one name.
PatientCalls ==
    {<<"P001", "Alice Smith", 30, "555-1234">>, <<"P002", "Bob Johnson", 45, "555-5678">>}
DoctorCalls == {<<id, a[1], a[2]>> : id \in DoctorIds, a \in DoctorAttrs}
AppointmentCalls == {<<"A001", "2023-10-15", "10:00">>, <<"A002", "2023-10-16", "14:00">>}
TreatmentCalls == {<<"T001", "Heart Disease Treatment">>}
MedicationCalls == {<<"M001", "Aspirin", "100mg daily">>}

-----------------------------------------------------------------------------
\* The graph and the Cypher clauses.

EmptyGraph == [nodes |-> {}, rels |-> {}]

\* What a transaction function hands back: the graph after the statement,
\* whether the statement raised, and the records of result.data().
Ok(g, data) == [graph |-> g, raised |-> FALSE, data |-> data]
Raise(g) == [graph |-> g, raised |-> TRUE, data |-> <<>>]

NodeById(g, nid) == CHOOSE n \in g.nodes : n.nid = nid

\* n.key, null when the node has no such property.
PropOf(n, key) == IF key \in DOMAIN n.props THEN n.props[key] ELSE None

\* MATCH (n:label {key: val}).  A null value matches no node.
MatchNodes(g, label, key, val) ==
    IF val = None THEN {}
    ELSE {n \in g.nodes : n.label = label /\ key \in DOMAIN n.props /\ n.props[key] = val}

\* The identity of a node.  The engine's own identifiers are opaque to the
\* notebook, so a new node is identified by its label, the value it was
\* merged on, and its ordinal among the nodes created with the two.
NewNodeId(g, label, val) ==
    <<label, val, Cardinality({n \in g.nodes : n.nid[1] = label /\ n.nid[2] = val}) + 1>>

\* Mutant of MergeNode: CREATE in place of MERGE, a node made on every call.
MergeNode_Create(g, label, key, val) ==
    [g EXCEPT !.nodes = @ \cup {[nid |-> NewNodeId(g, label, val), label |-> label,
                                  props |-> (key :> val)]}]

\* MERGE (n:label {key: val}): binds the matching nodes, creates one when
\* there is none.
MergeNode(g, label, key, val) ==
    IF MatchNodes(g, label, key, val) # {} THEN g
    ELSE [g EXCEPT !.nodes = @ \cup {[nid |-> NewNodeId(g, label, val), label |-> label,
                                       props |-> (key :> val)]}]

\* SET n.k = v for each k of upd, on every node of matched.
SetProps(g, matched, upd) ==
    [g EXCEPT !.nodes = {IF n \in matched THEN [n EXCEPT !.props = upd @@ n.props] ELSE n
                         : n \in g.nodes}]

RelsBetween(g, type, s, d) ==
    {r \in g.rels : r.type = type /\ r.src = s.nid /\ r.dst = d.nid}

\* The relationships of a type that leave node s.
RelsFrom(g, type, s) == {r \in g.rels : r.type = type /\ r.src = s.nid}

\* A new relationship is identified by its type, its end nodes and its
\* ordinal among the relationships of that type between them.  The engine
\* numbers relationships as it creates them; seq keeps of that numbering the
\* order in which the relationships of one type were created from one start
\* node.
RECURSIVE CreateRels(_, _, _)
CreateRels(g, type, pairs) ==
    IF pairs = {} THEN g
    ELSE LET p == CHOOSE q \in pairs : TRUE
             g1 == [g EXCEPT !.rels = @ \cup
                        {[rid |-> Cardinality(RelsBetween(g, type, p[1], p[2])) + 1,
                          seq |-> Cardinality(RelsFrom(g, type, p[1])) + 1,
                          type |-> type, src |-> p[1].nid, dst |-> p[2].nid]}]
         IN  CreateRels(g1, type, pairs \ {p})

\* Mutant of MergeRel: CREATE in place of MERGE, a relationship made for every
\* matched pair.
MergeRel_Create(g, type, srcs, dsts) == CreateRels(g, type, srcs \X dsts)

\* MATCH srcs, dsts MERGE (s)-[:type]->(d): for every matched pair, creates
\* the relationship unless one of that type already joins the pair.
MergeRel(g, type, srcs, dsts) ==
    CreateRels(g, type, {p \in srcs \X dsts : RelsBetween(g, type, p[1], p[2]) = {}})

\* The orders in which the engine may hand back a set of rows.
Orders(S) ==
    {f \in [1..Cardinality(S) -> S] : \A i, j \in 1..Cardinality(S) : i # j => f[i] # f[j]}

-----------------------------------------------------------------------------
\* The transaction functions of the notebook.  Each takes the graph and the
\* call's arguments and gives the outcome of its one Cypher statement.

\* MERGE (n:label {key: val}) SET n.k = v, ...; merging on a null value is an
\* error of the engine, which tx.run raises.
MergeSet(g, label, key, val, upd) ==
    IF val = None THEN Raise(g)
    ELSE LET g1 == MergeNode(g, label, key, val)
         IN  Ok(SetProps(g1, MatchNodes(g1, label, key, val), upd), <<>>)

\* Mutant of MatchMergeRel: the whole pattern merged,
\* MERGE (s:sl {sk: sv})-[:type]->(d:dl {dk: dv}) with the end nodes merged
\* first, so that a missing end node is created.
MatchMergeRel_MergeEnds(g, type, sl, sk, sv, dl, dk, dv) ==
    LET g1 == MergeNode(g, sl, sk, sv)
        g2 == MergeNode(g1, dl, dk, dv)
    IN  Ok(MergeRel(g2, type, MatchNodes(g2, sl, sk, sv), MatchNodes(g2, dl, dk, dv)), <<>>)

\* MATCH (s:sl {sk: sv}), (d:dl {dk: dv}) MERGE (s)-[:type]->(d)
MatchMergeRel(g, type, sl, sk, sv, dl, dk, dv) ==
    Ok(MergeRel(g, type, MatchNodes(g, sl, sk, sv), MatchNodes(g, dl, dk, dv)), <<>>)

create_patient(g, patient_id, name, age, contact) ==
    MergeSet(g, "Patient", "patient_id", patient_id,
             [name |-> name, age |-> age, contact |-> contact])

create_doctor(g, doctor_id, name, specialty) ==
    MergeSet(g, "Doctor", "doctor_id", doctor_id, [name |-> name, specialty |-> specialty])

\* Mutant of create_appointment: SET a = {...} in place of SET a.date = ...,
\* a.time = ..., the whole property map replaced.
create_appointment_Replace(g, appointment_id, date, time) ==
    IF appointment_id = None THEN Raise(g)
    ELSE LET g1 == MergeNode(g, "Appointment", "appointment_id", appointment_id)
             matched == MatchNodes(g1, "Appointment", "appointment_id", appointment_id)
         IN  Ok([g1 EXCEPT !.nodes =
                    {IF n \in matched
                        THEN [n EXCEPT !.props = [appointment_id |-> appointment_id,
                                                   date |-> date, time |-> time]]
                        ELSE n : n \in g1.nodes}], <<>>)

create_appointment(g, appointment_id, date, time) ==
    MergeSet(g, "Appointment", "appointment_id", appointment_id,
             [date |-> date, time |-> time])

link_patient_appointment(g, patient_id, appointment_id) ==
    MatchMergeRel(g, "HAS_APPOINTMENT", "Patient", "patient_id", patient_id,
                  "Appointment", "appointment_id", appointment_id)

\* Mutant of link_appointment_doctor: the appointment is given its one doctor,
\* the relationships to other doctors deleted before the new one is merged.
link_appointment_doctor_Reassign(g, appointment_id, doctor_id) ==
    LET as == MatchNodes(g, "Appointment", "appointment_id", appointment_id)
        ds == MatchNodes(g, "Doctor", "doctor_id", doctor_id)
        g1 == IF as = {} \/ ds = {} THEN g
              ELSE [g EXCEPT !.rels = {r \in @ : ~(/\ r.type = "WITH_DOCTOR"
                                                   /\ r.src \in {a.nid : a \in as}
                                                   /\ r.dst \notin {d.nid : d \in ds})}]
    IN  Ok(MergeRel(g1, "WITH_DOCTOR", as, ds), <<>>)

link_appointment_doctor(g, appointment_id, doctor_id) ==
    MatchMergeRel(g, "WITH_DOCTOR", "Appointment", "appointment_id", appointment_id,
                  "Doctor", "doctor_id", doctor_id)

create_treatment(g, treatment_id, description) ==
    MergeSet(g, "Treatment", "treatment_id", treatment_id, [description |-> description])

create_medication(g, medication_id, name, dosage) ==
    MergeSet(g, "Medication", "medication_id", medication_id,
             [name |-> name, dosage |-> dosage])

\* Mutant of link_treatment_medication: the pattern written the other way
\* round, MERGE (t)<-[:INCLUDES_MEDICATION]-(m).
link_treatment_medication_Reversed(g, treatment_id, medication_id) ==
    MatchMergeRel(g, "INCLUDES_MEDICATION", "Medication", "medication_id", medication_id,
                  "Treatment", "treatment_id", treatment_id)

link_treatment_medication(g, treatment_id, medication_id) ==
    MatchMergeRel(g, "INCLUDES_MEDICATION", "Treatment", "treatment_id", treatment_id,
                  "Medication", "medication_id", medication_id)

link_patient_treatment(g, patient_id, treatment_id) ==
    MatchMergeRel(g, "UNDERGOES", "Patient", "patient_id", patient_id,
                  "Treatment", "treatment_id", treatment_id)

\* Mutant of set_appointment_reminder: MERGE in place of MATCH, so that an
\* appointment that is missing is created.
set_appointment_reminder_Merge(g, appointment_id, reminder_sent) ==
    MergeSet(g, "Appointment", "appointment_id", appointment_id,
             [reminder_sent |-> reminder_sent])

\* MATCH (a:Appointment {appointment_id: ...}) SET a.reminder_sent = ...
set_appointment_reminder(g, appointment_id, reminder_sent) ==
    Ok(SetProps(g, MatchNodes(g, "Appointment", "appointment_id", appointment_id),
                [reminder_sent |-> reminder_sent]), <<>>)

\* The lists result.data() may hold: one record per matched path, in an order
\* of the engine's choosing.
RecordLists(paths, row) ==
    {[i \in 1..Cardinality(paths) |-> row[o[i]]] : o \in Orders(paths)}

\* Mutant of PatientAppointmentPaths: the pattern split in two,
\* (p)-[r1:HAS_APPOINTMENT]->(a), (b)-[r2:WITH_DOCTOR]->(d), so that the
\* doctor need not be the appointment's.
PatientAppointmentPaths_Split(g, patient_id) ==
    {p \in g.rels \X g.rels :
        /\ p[1].type = "HAS_APPOINTMENT"
        /\ NodeById(g, p[1].src) \in MatchNodes(g, "Patient", "patient_id", patient_id)
        /\ p[2].type = "WITH_DOCTOR"}

\* (p:Patient {patient_id})-[r1:HAS_APPOINTMENT]->(a)-[r2:WITH_DOCTOR]->(d),
\* a path being the pair <<r1, r2>>.
PatientAppointmentPaths(g, patient_id) ==
    {p \in g.rels \X g.rels :
        /\ p[1].type = "HAS_APPOINTMENT"
        /\ NodeById(g, p[1].src) \in MatchNodes(g, "Patient", "patient_id", patient_id)
        /\ p[2].type = "WITH_DOCTOR"
        /\ p[2].src = p[1].dst}

get_patient_appointments(g, patient_id) ==
    LET paths == PatientAppointmentPaths(g, patient_id)
        row == [p \in paths |->
                   LET a == NodeById(g, p[1].dst)
                       d == NodeById(g, p[2].dst)
                   IN  [appointment_id |-> PropOf(a, "appointment_id"),
                        date |-> PropOf(a, "date"),
                        time |-> PropOf(a, "time"),
                        doctor |-> PropOf(d, "name")]]
    IN  RecordLists(paths, row)

\* Mutant of DoctorPatientPaths: (d:Doctor) without the identifier, the
\* patients of every doctor.
DoctorPatientPaths_AnyDoctor(g, doctor_id) ==
    {p \in g.rels \X g.rels :
        /\ p[2].type = "WITH_DOCTOR"
        /\ NodeById(g, p[2].dst).label = "Doctor"
        /\ p[1].type = "HAS_APPOINTMENT"
        /\ p[1].dst = p[2].src}

\* (d:Doctor {doctor_id})<-[r2:WITH_DOCTOR]-(a)<-[r1:HAS_APPOINTMENT]-(p),
\* a path being the pair <<r1, r2>>.
DoctorPatientPaths(g, doctor_id) ==
    {p \in g.rels \X g.rels :
        /\ p[2].type = "WITH_DOCTOR"
        /\ NodeById(g, p[2].dst) \in MatchNodes(g, "Doctor", "doctor_id", doctor_id)
        /\ p[1].type = "HAS_APPOINTMENT"
        /\ p[1].dst = p[2].src}

\* Mutant of get_doctor_patients: RETURN DISTINCT, a patient listed once
\* however many appointments lead to the doctor.
get_doctor_patients_Distinct(g, doctor_id) ==
    LET paths == DoctorPatientPaths(g, doctor_id)
        recs == {[patient_id |-> PropOf(NodeById(g, p[1].src), "patient_id"),
                  name |-> PropOf(NodeById(g, p[1].src), "name")] : p \in paths}
    IN  RecordLists(recs, [r \in recs |-> r])

get_doctor_patients(g, doctor_id) ==
    LET paths == DoctorPatientPaths(g, doctor_id)
        row == [p \in paths |->
                   LET n == NodeById(g, p[1].src)
                   IN  [patient_id |-> PropOf(n, "patient_id"), name |-> PropOf(n, "name")]]
    IN  RecordLists(paths, row)

\* Mutant of InsertDesc: ORDER BY appointments, the smallest count first.
InsertDesc_Asc(sorted, row) ==
    LET k == Cardinality({i \in 1..Len(sorted) : sorted[i].appointments <= row.appointments})
    IN  SubSeq(sorted, 1, k) \o <<row>> \o SubSeq(sorted, k + 1, Len(sorted))

\* ORDER BY appointments DESC: an insertion sort of the rows the engine
\* produced, a row going behind the rows whose count is not smaller.
InsertDesc(sorted, row) ==
    LET k == Cardinality({i \in 1..Len(sorted) : sorted[i].appointments >= row.appointments})
    IN  SubSeq(sorted, 1, k) \o <<row>> \o SubSeq(sorted, k + 1, Len(sorted))

RECURSIVE OrderByAppointmentsDesc(_)
OrderByAppointmentsDesc(rows) ==
    IF rows = <<>> THEN <<>>
    ELSE InsertDesc(OrderByAppointmentsDesc(SubSeq(rows, 1, Len(rows) - 1)), rows[Len(rows)])

\* (d:Doctor)<-[r:WITH_DOCTOR]-(a), a path being the relationship r.
WorkloadPaths(g) ==
    {r \in g.rels : r.type = "WITH_DOCTOR" /\ NodeById(g, r.dst).label = "Doctor"}

\* RETURN d.name AS doctor, COUNT(a) AS appointments: the paths are grouped by
\* the non-aggregated column d.name, one row per group.
WorkloadRows(g) ==
    LET DoctorName(r) == PropOf(NodeById(g, r.dst), "name")
    IN  {[doctor |-> nm,
          appointments |-> Cardinality({r \in WorkloadPaths(g) : DoctorName(r) = nm})]
         : nm \in {DoctorName(r) : r \in WorkloadPaths(g)}}

get_doctor_workload(g) ==
    {OrderByAppointmentsDesc(o) : o \in Orders(WorkloadRows(g))}

-----------------------------------------------------------------------------
\* The calls: session.write_transaction(f, args) and
\* session.read_transaction(f, args) under a live connection.

\* Mutant of write_transaction: no rollback, what f did before it raised
\* stays in the database.
write_transaction_NoRollback(g, out) == out

\* write_transaction commits what f did, or rolls it back when f raised.
write_transaction(g, out) == IF out.raised THEN [out EXCEPT !.graph = g] ELSE out

\* read_transaction hands back one of the lists f may return.
read_transaction(g, data) == Ok(g, data)

\* The functions called in any order with any arguments, one call after
\* another on an open driver, every call running once and to its end.
Init ==
    /\ graph = EmptyGraph
    /\ last = [op |-> "none", args |-> <<>>]
    /\ raised = FALSE
    /\ result = <<>>
    /\ driver = "open"
    /\ pc = 0
    /\ attempts = 0
    /\ error = None

\* The call op(args) ended with outcome out.
Call(op, args, out) ==
    /\ Cardinality(out.graph.nodes) <= MaxNodes
    /\ Cardinality(out.graph.rels) <= MaxRels
    /\ graph' = out.graph
    /\ raised' = out.raised
    /\ result' = out.data
    /\ last' = [op |-> op, args |-> args]
    /\ UNCHANGED <<driver, pc, attempts, error>>

CreatePatient ==
    \E c \in PatientCalls :
        Call("create_patient", c,
             write_transaction(graph, create_patient(graph, c[1], c[2], c[3], c[4])))

CreateDoctor ==
    \E c \in DoctorCalls :
        Call("create_doctor", c,
             write_transaction(graph, create_doctor(graph, c[1], c[2], c[3])))

CreateAppointment ==
    \E c \in AppointmentCalls :
        Call("create_appointment", c,
             write_transaction(graph, create_appointment(graph, c[1], c[2], c[3])))

CreateTreatment ==
    \E c \in TreatmentCalls :
        Call("create_treatment", c,
             write_transaction(graph, create_treatment(graph, c[1], c[2])))

CreateMedication ==
    \E c \in MedicationCalls :
        Call("create_medication", c,
             write_transaction(graph, create_medication(graph, c[1], c[2], c[3])))

LinkPatientAppointment ==
    \E p \in PatientIds, a \in AppointmentIds :
        Call("link_patient_appointment", <<p, a>>,
             write_transaction(graph, link_patient_appointment(graph, p, a)))

LinkAppointmentDoctor ==
    \E a \in AppointmentIds, d \in DoctorIds :
        Call("link_appointment_doctor", <<a, d>>,
             write_transaction(graph, link_appointment_doctor(graph, a, d)))

LinkTreatmentMedication ==
    \E t \in TreatmentIds, m \in MedicationIds :
        Call("link_treatment_medication", <<t, m>>,
             write_transaction(graph, link_treatment_medication(graph, t, m)))

LinkPatientTreatment ==
    \E p \in PatientIds, t \in TreatmentIds :
        Call("link_patient_treatment", <<p, t>>,
             write_transaction(graph, link_patient_treatment(graph, p, t)))

SetAppointmentReminder ==
    \E a \in AppointmentIds, sent \in BOOLEAN :
        Call("set_appointment_reminder", <<a, sent>>,
             write_transaction(graph, set_appointment_reminder(graph, a, sent)))

GetPatientAppointments ==
    \E p \in PatientIds : \E data \in get_patient_appointments(graph, p) :
        Call("get_patient_appointments", <<p>>, read_transaction(graph, data))

GetDoctorPatients ==
    \E d \in DoctorIds : \E data \in get_doctor_patients(graph, d) :
        Call("get_doctor_patients", <<d>>, read_transaction(graph, data))

GetDoctorWorkload ==
    \E data \in get_doctor_workload(graph) :
        Call("get_doctor_workload", <<>>, read_transaction(graph, data))

Next ==
    \/ CreatePatient
    \/ CreateDoctor
    \/ CreateAppointment
    \/ CreateTreatment
    \/ CreateMedication
    \/ LinkPatientAppointment
    \/ LinkAppointmentDoctor
    \/ LinkTreatmentMedication
    \/ LinkPatientTreatment
    \/ SetAppointmentReminder
    \/ GetPatientAppointments
    \/ GetDoctorPatients
    \/ GetDoctorWorkload

Spec == Init /\ [][Next]_vars

-----------------------------------------------------------------------------
\* Vocabulary of the properties.

\* The property an entity of a label is identified by.
KeyOf(label) ==
    CASE label = "Patient" -> "patient_id"
      [] label = "Doctor" -> "doctor_id"
      [] label = "Appointment" -> "appointment_id"
      [] label = "Treatment" -> "treatment_id"
      [] label = "Medication" -> "medication_id"

Entity(g, label, id) == MatchNodes(g, label, KeyOf(label), id)

UpsertOps ==
    {"create_patient", "create_doctor", "create_appointment", "create_treatment",
     "create_medication"}

LinkOps ==
    {"link_patient_appointment", "link_appointment_doctor", "link_treatment_medication",
     "link_patient_treatment"}

-----------------------------------------------------------------------------
\* C1: from every reachable graph, for every entity kind, identifier
\* (None included) and attribute tuple, a second upsert call with the
\* arguments of the first leaves the graph exactly as the first call left it.
C1_UpsertIdempotent ==
    /\ \A id \in OrNone(PatientIds), a \in PatientAttrs :
          LET g1 == write_transaction(graph, create_patient(graph, id, a[1], a[2], a[3])).graph
          IN  write_transaction(g1, create_patient(g1, id, a[1], a[2], a[3])).graph = g1
    /\ \A id \in OrNone(DoctorIds), a \in DoctorAttrs :
          LET g1 == write_transaction(graph, create_doctor(graph, id, a[1], a[2])).graph
          IN  write_transaction(g1, create_doctor(g1, id, a[1], a[2])).graph = g1
    /\ \A id \in OrNone(AppointmentIds), a \in AppointmentAttrs :
          LET g1 == write_transaction(graph, create_appointment(graph, id, a[1], a[2])).graph
          IN  write_transaction(g1, create_appointment(g1, id, a[1], a[2])).graph = g1
    /\ \A id \in OrNone(TreatmentIds), d \in TreatmentAttrs :
          LET g1 == write_transaction(graph, create_treatment(graph, id, d)).graph
          IN  write_transaction(g1, create_treatment(g1, id, d)).graph = g1
    /\ \A id \in OrNone(MedicationIds), a \in MedicationAttrs :
          LET g1 == write_transaction(graph, create_medication(graph, id, a[1], a[2])).graph
          IN  write_transaction(g1, create_medication(g1, id, a[1], a[2])).graph = g1

\* An upsert has just run on a graph that holds other entities and
\* relationships, and its entity is there with the attributes of the call.
C1_Witness ==
    /\ last.op = "create_doctor"
    /\ \E n \in Entity(graph, "Doctor", last.args[1]) :
          n.props.name = last.args[2] /\ n.props.specialty = last.args[3]
    /\ Cardinality(graph.nodes) >= 3
    /\ graph.rels # {}

\* C2: there is at most one node for each (label, identifier) and at most one
\* relationship for each (type, start node, end node).
C2_Unique ==
    /\ \A n1, n2 \in graph.nodes :
          (n1.label = n2.label /\ PropOf(n1, KeyOf(n1.label)) = PropOf(n2, KeyOf(n2.label)))
              => n1 = n2
    /\ \A r1, r2 \in graph.rels :
          (r1.type = r2.type /\ r1.src = r2.src /\ r1.dst = r2.dst) => r1 = r2

\* A link call has just run between two entities that are joined, in a graph
\* with the most relationships the model holds (a repeated link included:
\* it ends in this same state).
C2_Witness ==
    /\ last.op = "link_appointment_doctor"
    /\ \E a \in Entity(graph, "Appointment", last.args[1]),
          d \in Entity(graph, "Doctor", last.args[2]) :
          RelsBetween(graph, "WITH_DOCTOR", a, d) # {}
    /\ Cardinality(graph.rels) = MaxRels

\* C3: a link call with an endpoint identifier that matches no entity of the
\* required label (None included) raises nothing and leaves the graph as it
\* was.
NoEffect(out) == ~out.raised /\ out.graph = graph

C3_LinkMissingEndpoint ==
    /\ \A p \in OrNone(PatientIds), a \in OrNone(AppointmentIds) :
          (Entity(graph, "Patient", p) = {} \/ Entity(graph, "Appointment", a) = {})
              => NoEffect(write_transaction(graph, link_patient_appointment(graph, p, a)))
    /\ \A a \in OrNone(AppointmentIds), d \in OrNone(DoctorIds) :
          (Entity(graph, "Appointment", a) = {} \/ Entity(graph, "Doctor", d) = {})
              => NoEffect(write_transaction(graph, link_appointment_doctor(graph, a, d)))
    /\ \A t \in OrNone(TreatmentIds), m \in OrNone(MedicationIds) :
          (Entity(graph, "Treatment", t) = {} \/ Entity(graph, "Medication", m) = {})
              => NoEffect(write_transaction(graph, link_treatment_medication(graph, t, m)))
    /\ \A p \in OrNone(PatientIds), t \in OrNone(TreatmentIds) :
          (Entity(graph, "Patient", p) = {} \/ Entity(graph, "Treatment", t) = {})
              => NoEffect(write_transaction(graph, link_patient_treatment(graph, p, t)))

\* link_patient_appointment has just run for a patient that exists and an
\* appointment that does not, in a graph that holds other appointments.
C3_Witness ==
    /\ last.op = "link_patient_appointment"
    /\ ~raised
    /\ Entity(graph, "Patient", last.args[1]) # {}
    /\ Entity(graph, "Appointment", last.args[2]) = {}
    /\ \E n \in graph.nodes : n.label = "Appointment"

-----------------------------------------------------------------------------
\* The population cell of the notebook, as the calls it makes in order.

PopulatingDatabase ==
    << [op |-> "create_patient", args |-> <<"P001", "Alice Smith", 30, "555-1234">>],
       [op |-> "create_patient", args |-> <<"P002", "Bob Johnson", 45, "555-5678">>],
       [op |-> "create_doctor", args |-> <<"D001", "Dr. Emily Brown", "Cardiology">>],
       [op |-> "create_doctor", args |-> <<"D002", "Dr. John Doe", "Neurology">>],
       [op |-> "create_appointment", args |-> <<"A001", "2023-10-15", "10:00">>],
       [op |-> "create_appointment", args |-> <<"A002", "2023-10-16", "14:00">>],
       [op |-> "link_patient_appointment", args |-> <<"P001", "A001">>],
       [op |-> "link_patient_appointment", args |-> <<"P002", "A002">>],
       [op |-> "link_appointment_doctor", args |-> <<"A001", "D001">>],
       [op |-> "link_appointment_doctor", args |-> <<"A002", "D002">>] >>

\* f(tx, args) for the writing function named c.op.
Apply(g, c) ==
    LET a == c.args
    IN  CASE c.op = "create_patient" -> create_patient(g, a[1], a[2], a[3], a[4])
          [] c.op = "create_doctor" -> create_doctor(g, a[1], a[2], a[3])
          [] c.op = "create_appointment" -> create_appointment(g, a[1], a[2], a[3])
          [] c.op = "create_treatment" -> create_treatment(g, a[1], a[2])
          [] c.op = "create_medication" -> create_medication(g, a[1], a[2], a[3])
          [] c.op = "link_patient_appointment" -> link_patient_appointment(g, a[1], a[2])
          [] c.op = "link_appointment_doctor" -> link_appointment_doctor(g, a[1], a[2])
          [] c.op = "link_treatment_medication" -> link_treatment_medication(g, a[1], a[2])
          [] c.op = "link_patient_treatment" -> link_patient_treatment(g, a[1], a[2])
          [] c.op = "set_appointment_reminder" -> set_appointment_reminder(g, a[1], a[2])

\* session.write_transaction(f, args) for the function named c.op.
WriteCall(g, c) == write_transaction(g, Apply(g, c))

\* The calls of a cell one after another under a live connection; a call that
\* raises ends the cell.
RECURSIVE RunCalls(_, _)
RunCalls(g, calls) ==
    IF calls = <<>> THEN Ok(g, <<>>)
    ELSE LET out == WriteCall(g, Head(calls))
         IN  IF out.raised THEN out ELSE RunCalls(out.graph, Tail(calls))

\* The graph the population cell leaves when run on the empty database.
PopulatedGraph == RunCalls(EmptyGraph, PopulatingDatabase).graph

-----------------------------------------------------------------------------
\* Some relationship of the type goes from node s to node d.
Joined(g, type, s, d) == \E r \in g.rels : r.type = type /\ r.src = s.nid /\ r.dst = d.nid

\* The (appointment, doctor) pairs of a patient: the patient has a
\* HAS_APPOINTMENT edge to the appointment and the appointment a WITH_DOCTOR
\* edge to the doctor.
AppointmentPairs(g, patient_id) ==
    {pr \in g.nodes \X g.nodes :
        \E p \in Entity(g, "Patient", patient_id) :
            /\ Joined(g, "HAS_APPOINTMENT", p, pr[1])
            /\ Joined(g, "WITH_DOCTOR", pr[1], pr[2])}

AppointmentRecord(pr) ==
    [appointment_id |-> PropOf(pr[1], "appointment_id"), date |-> PropOf(pr[1], "date"),
     time |-> PropOf(pr[1], "time"), doctor |-> PropOf(pr[2], "name")]

\* data holds exactly one record for each pair, and nothing else.
OneRecordPerPair(g, patient_id, data) ==
    \E o \in Orders(AppointmentPairs(g, patient_id)) :
        /\ Len(data) = Len(o)
        /\ \A i \in 1..Len(o) : data[i] = AppointmentRecord(o[i])

\* C4: on every reachable graph and for every patient identifier (None
\* included), every list get_patient_appointments may return holds exactly
\* one record (appointment_id, date, time, doctor name) per (appointment,
\* doctor) pair of the patient and nothing else, and is empty when the patient
\* does not exist or has no appointment; the list a query call returned is
\* such a list; and on the graph the population cell leaves, the query for
\* P001 returns exactly the one record (A001, 2023-10-15, 10:00, Dr. Emily
\* Brown).
C4_PatientAppointments ==
    /\ \A pid \in OrNone(PatientIds) : \A data \in get_patient_appointments(graph, pid) :
          /\ OneRecordPerPair(graph, pid, data)
          /\ (\/ Entity(graph, "Patient", pid) = {}
              \/ \A p \in Entity(graph, "Patient", pid), a \in graph.nodes :
                    ~Joined(graph, "HAS_APPOINTMENT", p, a)) => data = <<>>
    /\ last.op = "get_patient_appointments" =>
          /\ ~raised
          /\ OneRecordPerPair(graph, last.args[1], result)
    /\ get_patient_appointments(PopulatedGraph, "P001") =
          {<< [appointment_id |-> "A001", date |-> "2023-10-15", time |-> "10:00",
               doctor |-> "Dr. Emily Brown"] >>}

\* The query for P001 has just returned two records, the first of them the
\* record of appointment A001 with Dr. Emily Brown.
C4_Witness ==
    /\ last.op = "get_patient_appointments"
    /\ last.args = <<"P001">>
    /\ Len(result) = 2
    /\ result[1] = [appointment_id |-> "A001", date |-> "2023-10-15", time |-> "10:00",
                    doctor |-> "Dr. Emily Brown"]

\* The patients of a doctor: the patient has a HAS_APPOINTMENT edge to some
\* node that has a WITH_DOCTOR edge to the doctor.
PatientsOf(g, doctor_id) ==
    {p \in g.nodes :
        \E d \in Entity(g, "Doctor", doctor_id), a \in g.nodes :
            /\ Joined(g, "HAS_APPOINTMENT", p, a)
            /\ Joined(g, "WITH_DOCTOR", a, d)}

PatientRecord(p) == [patient_id |-> PropOf(p, "patient_id"), name |-> PropOf(p, "name")]

\* The records of data are those of the doctor's patients, no other.
RecordsOfPatients(g, doctor_id, data) ==
    {data[i] : i \in 1..Len(data)} = {PatientRecord(p) : p \in PatientsOf(g, doctor_id)}

\* C5: on every reachable graph and for every doctor identifier (None
\* included), every list get_doctor_patients may return holds a (patient_id,
\* name) record for each patient with an appointment linked to that doctor and
\* for no other patient, and is empty when the doctor does not exist; the list
\* a query call returned is such a list; and on the graph the population cell
\* leaves, the query for D001 returns exactly [(P001, Alice Smith)].
C5_DoctorPatients ==
    /\ \A did \in OrNone(DoctorIds) : \A data \in get_doctor_patients(graph, did) :
          /\ RecordsOfPatients(graph, did, data)
          /\ Entity(graph, "Doctor", did) = {} => data = <<>>
    /\ last.op = "get_doctor_patients" =>
          /\ ~raised
          /\ RecordsOfPatients(graph, last.args[1], result)
    /\ get_doctor_patients(PopulatedGraph, "D001") =
          {<< [patient_id |-> "P001", name |-> "Alice Smith"] >>}

\* The query for D001 has just returned Alice Smith alone, while the graph
\* holds another patient, who has no appointment with D001.
C5_Witness ==
    /\ last.op = "get_doctor_patients"
    /\ last.args = <<"D001">>
    /\ result = << [patient_id |-> "P001", name |-> "Alice Smith"] >>
    /\ Entity(graph, "Patient", "P002") # {}

\* The doctors with an incoming WITH_DOCTOR edge, and the number of
\* appointments linked to one doctor.
BusyDoctors(g) ==
    {d \in g.nodes : d.label = "Doctor" /\ \E a \in g.nodes : Joined(g, "WITH_DOCTOR", a, d)}

AppointmentCount(g, d) == Cardinality({a \in g.nodes : Joined(g, "WITH_DOCTOR", a, d)})

\* data holds one (name, count) pair for each busy doctor, the count being
\* that doctor's own, and no other pair.
OnePairPerDoctor(g, data) ==
    \E o \in Orders(BusyDoctors(g)) :
        /\ Len(data) = Len(o)
        /\ \A i \in 1..Len(o) :
              data[i] = [doctor |-> PropOf(o[i], "name"),
                         appointments |-> AppointmentCount(g, o[i])]

\* C6 (as claimed): on every reachable graph, every list get_doctor_workload
\* may return holds one (doctor name, appointment count) pair for each doctor
\* with an incoming WITH_DOCTOR edge, with that doctor's own count, and no
\* pair for a doctor without appointments; also when two doctors carry one
\* name.  The statement groups by d.name, which refutes it: the list a
\* workload query returned need not be such a list.
C6_OnePairPerDoctor ==
    last.op = "get_doctor_workload" => OnePairPerDoctor(graph, result)

\* data is sorted by appointment count, largest first.
SortedByCountDesc(data) ==
    \A i \in 1..(Len(data) - 1) : data[i].appointments >= data[i + 1].appointments

\* C7 (as claimed): every list get_doctor_workload may return is sorted by
\* appointment count in non-increasing order, and when the busy doctors are
\* two doctors with exactly one appointment each, the list holds both of them
\* with count 1.
C7_SortedAndBothReturned ==
    last.op = "get_doctor_workload" =>
        /\ SortedByCountDesc(result)
        /\ (/\ Cardinality(BusyDoctors(graph)) = 2
            /\ \A d \in BusyDoctors(graph) : AppointmentCount(graph, d) = 1)
           => /\ Len(result) = 2
              /\ \A d \in BusyDoctors(graph) :
                    \E i \in 1..2 :
                        result[i] = [doctor |-> PropOf(d, "name"), appointments |-> 1]

\* The part of C7 that the code keeps: every returned list is sorted by count,
\* largest first, also the list a query call returned.
C7_Sorted ==
    /\ \A data \in get_doctor_workload(graph) : SortedByCountDesc(data)
    /\ last.op = "get_doctor_workload" => SortedByCountDesc(result)

\* The workload query has just returned two rows with different counts.
C7_SortedWitness ==
    /\ last.op = "get_doctor_workload"
    /\ Len(result) = 2
    /\ result[1].appointments = 2
    /\ result[2].appointments = 1

\* Node m is node n with the properties of keys set anew and every other
\* property as n has it.
SameBut(n, m, keys) ==
    /\ m.nid = n.nid
    /\ m.label = n.label
    /\ DOMAIN m.props = DOMAIN n.props \cup keys
    /\ \A k \in DOMAIN n.props \ keys : m.props[k] = n.props[k]

\* Graph h is graph g with the properties of keys set anew on the nodes of
\* touched, and nothing else changed: the same relationships, the same other
\* nodes, no node added.
OnlyTouched(g, h, touched, keys) ==
    /\ h.rels = g.rels
    /\ Cardinality(h.nodes) = Cardinality(g.nodes)
    /\ \A n \in g.nodes :
          IF n \in touched THEN \E m \in h.nodes : SameBut(n, m, keys)
          ELSE n \in h.nodes

\* C8: on every reachable graph, for every appointment identifier (None
\* included) and boolean, set_appointment_reminder raises nothing; on an
\* existing appointment it leaves reminder_sent equal to the boolean and
\* changes nothing else; on a missing one it leaves the graph as it was.
C8_SetReminder ==
    \A id \in OrNone(AppointmentIds), sent \in BOOLEAN :
        LET out == write_transaction(graph, set_appointment_reminder(graph, id, sent))
            found == Entity(graph, "Appointment", id)
        IN  /\ ~out.raised
            /\ found = {} => out.graph = graph
            /\ found # {} =>
                  /\ OnlyTouched(graph, out.graph, found, {"reminder_sent"})
                  /\ \A m \in Entity(out.graph, "Appointment", id) :
                        "reminder_sent" \in DOMAIN m.props /\ m.props.reminder_sent = sent

\* set_appointment_reminder has just run on an appointment that exists and
\* has relationships, and the appointment reads back the boolean of the call.
C8_Witness ==
    /\ last.op = "set_appointment_reminder"
    /\ ~raised
    /\ \E m \in Entity(graph, "Appointment", last.args[1]) :
          /\ "reminder_sent" \in DOMAIN m.props
          /\ m.props.reminder_sent = last.args[2]
          /\ \E r \in graph.rels : r.src = m.nid
    /\ \E n \in graph.nodes : n.label = "Appointment" /\ "reminder_sent" \notin DOMAIN n.props

\* The graph after the upsert is the graph before it with the given
\* attributes written on the entity matched, or with the one new entity added
\* when none matched; every other property, node and relationship is as it
\* was.
UpsertFrame(g, out, label, id, keys) ==
    IF id = None THEN out.raised /\ out.graph = g
    ELSE IF Entity(g, label, id) # {}
         THEN OnlyTouched(g, out.graph, Entity(g, label, id), keys)
         ELSE /\ out.graph.rels = g.rels
              /\ g.nodes \subseteq out.graph.nodes
              /\ Cardinality(out.graph.nodes) = Cardinality(g.nodes) + 1

\* C9: on every reachable graph, an upsert of an existing entity writes only
\* the attributes it is given and leaves every other attribute, every other
\* node and every relationship as they were; create_appointment keeps the
\* appointment's reminder_sent and its HAS_APPOINTMENT and WITH_DOCTOR edges.
C9_UpsertFrame ==
    /\ \A id \in OrNone(PatientIds), a \in PatientAttrs :
          UpsertFrame(graph, write_transaction(graph, create_patient(graph, id, a[1], a[2], a[3])),
                      "Patient", id, {"name", "age", "contact"})
    /\ \A id \in OrNone(DoctorIds), a \in DoctorAttrs :
          UpsertFrame(graph, write_transaction(graph, create_doctor(graph, id, a[1], a[2])),
                      "Doctor", id, {"name", "specialty"})
    /\ \A id \in OrNone(AppointmentIds), a \in AppointmentAttrs :
          UpsertFrame(graph, write_transaction(graph, create_appointment(graph, id, a[1], a[2])),
                      "Appointment", id, {"date", "time"})
    /\ \A id \in OrNone(TreatmentIds), d \in TreatmentAttrs :
          UpsertFrame(graph, write_transaction(graph, create_treatment(graph, id, d)),
                      "Treatment", id, {"description"})
    /\ \A id \in OrNone(MedicationIds), a \in MedicationAttrs :
          UpsertFrame(graph, write_transaction(graph, create_medication(graph, id, a[1], a[2])),
                      "Medication", id, {"name", "dosage"})

\* create_appointment has just run on an appointment that has its reminder
\* flag set and both its edges.
C9_Witness ==
    /\ last.op = "create_appointment"
    /\ \E m \in Entity(graph, "Appointment", last.args[1]) :
          /\ "reminder_sent" \in DOMAIN m.props
          /\ \E r \in graph.rels : r.type = "HAS_APPOINTMENT" /\ r.dst = m.nid
          /\ \E r \in graph.rels : r.type = "WITH_DOCTOR" /\ r.src = m.nid

\* Every node of the graph is in the next graph, under its identity, label
\* and identifier, and so is every relationship.
NothingDeleted ==
    /\ \A n \in graph.nodes :
          \E m \in graph'.nodes :
              /\ m.nid = n.nid
              /\ m.label = n.label
              /\ PropOf(m, KeyOf(m.label)) = PropOf(n, KeyOf(n.label))
    /\ graph.rels \subseteq graph'.rels

\* C10: no call deletes anything: across every step, of an upsert, a link,
\* the reminder update or a query, the nodes and the relationships of the
\* graph are kept.
C10_NothingDeleted == [][NothingDeleted]_vars

\* A link of an appointment to a second doctor has just run, and the
\* appointment keeps its first doctor.
C10_Witness ==
    /\ last.op = "link_appointment_doctor"
    /\ \E a \in Entity(graph, "Appointment", last.args[1]) :
          Cardinality({r \in graph.rels : r.type = "WITH_DOCTOR" /\ r.src = a.nid}) = 2
    /\ \E n \in graph.nodes : n.label = "Appointment" /\ "reminder_sent" \in DOMAIN n.props

-----------------------------------------------------------------------------
\* The labels of the start and the end node that the statement creating a
\* relationship of the type matches.
EndLabels(type) ==
    CASE type = "HAS_APPOINTMENT" -> <<"Patient", "Appointment">>
      [] type = "WITH_DOCTOR" -> <<"Appointment", "Doctor">>
      [] type = "UNDERGOES" -> <<"Patient", "Treatment">>
      [] type = "INCLUDES_MEDICATION" -> <<"Treatment", "Medication">>

\* C14: in every reachable graph every relationship has one of the four
\* types, starts at a node of the graph and ends at a node of the graph (no
\* dangling edge), and the labels of the two nodes are those of its type:
\* HAS_APPOINTMENT Patient to Appointment, WITH_DOCTOR Appointment to Doctor,
\* UNDERGOES Patient to Treatment, INCLUDES_MEDICATION Treatment to
\* Medication.
C14_EdgesWellFormed ==
    \A r \in graph.rels :
        /\ r.type \in {"HAS_APPOINTMENT", "WITH_DOCTOR", "UNDERGOES", "INCLUDES_MEDICATION"}
        /\ \E s, d \in graph.nodes :
              /\ s.nid = r.src
              /\ d.nid = r.dst
              /\ s.label = EndLabels(r.type)[1]
              /\ d.label = EndLabels(r.type)[2]

\* A link call has just run in a graph that holds relationships of three
\* types, an INCLUDES_MEDICATION edge among them.
C14_Witness ==
    /\ last.op \in LinkOps
    /\ Cardinality({r.type : r \in graph.rels}) >= 3
    /\ \E r \in graph.rels : r.type = "INCLUDES_MEDICATION"

-----------------------------------------------------------------------------
\* The appointments that join patient p to the doctor: p has a
\* HAS_APPOINTMENT edge to the appointment and the appointment a WITH_DOCTOR
\* edge to the doctor.
AppointmentsWith(g, p, doctor_id) ==
    {a \in g.nodes :
        /\ Joined(g, "HAS_APPOINTMENT", p, a)
        /\ \E d \in Entity(g, "Doctor", doctor_id) : Joined(g, "WITH_DOCTOR", a, d)}

\* How many records of data are the record of patient p.
TimesListed(data, p) == Cardinality({i \in 1..Len(data) : data[i] = PatientRecord(p)})

\* data lists every patient once per appointment that joins the patient to
\* the doctor, and holds nothing else.
OncePerAppointment(g, doctor_id, data) ==
    /\ \A p \in g.nodes :
          p.label = "Patient" =>
              TimesListed(data, p) = Cardinality(AppointmentsWith(g, p, doctor_id))
    /\ \A i \in 1..Len(data) :
          \E p \in g.nodes : p.label = "Patient" /\ data[i] = PatientRecord(p)

\* C16: on every reachable graph and for every doctor identifier (None
\* included), every list get_doctor_patients may return holds one record per
\* path patient -HAS_APPOINTMENT-> appointment -WITH_DOCTOR-> doctor and is
\* not de-duplicated: a patient with k distinct appointments linked to the
\* doctor is listed exactly k times; the list a query call returned is such a
\* list.
C16_OncePerAppointment ==
    /\ \A did \in OrNone(DoctorIds) : \A data \in get_doctor_patients(graph, did) :
          OncePerAppointment(graph, did, data)
    /\ last.op = "get_doctor_patients" => OncePerAppointment(graph, last.args[1], result)

\* The query for a doctor has just listed one patient twice, the patient
\* having two appointments with that doctor.
C16_Witness ==
    /\ last.op = "get_doctor_patients"
    /\ Len(result) = 2
    /\ result[1] = result[2]
    /\ \E p \in Entity(graph, "Patient", result[1].patient_id) :
          Cardinality(AppointmentsWith(graph, p, last.args[1])) = 2

-----------------------------------------------------------------------------
\* The place of an appointment among the appointments linked to a patient,
\* in the order of linking: the seq of the patient's HAS_APPOINTMENT edge to
\* it.
LinkSeq(g, patient_id, appointment_id) ==
    LET r == CHOOSE r \in g.rels :
                 /\ r.type = "HAS_APPOINTMENT"
                 /\ NodeById(g, r.src) \in Entity(g, "Patient", patient_id)
                 /\ NodeById(g, r.dst) \in Entity(g, "Appointment", appointment_id)
    IN  r.seq

\* The records of data come in the order in which their appointments were
\* linked to the patient.
InsertionOrdered(g, patient_id, data) ==
    \A i, j \in 1..Len(data) :
        i < j => LinkSeq(g, patient_id, data[i].appointment_id)
                     <= LinkSeq(g, patient_id, data[j].appointment_id)

\* C13 (as claimed): the list a get_patient_appointments call returned holds
\* its records in the order in which the appointments were linked to the
\* patient, whatever the order of creating and linking.  The statement has no
\* ORDER BY, so the engine is free to hand the rows back in another order,
\* which refutes it.
C13_InsertionOrder ==
    last.op = "get_patient_appointments" =>
        InsertionOrdered(graph, last.args[1], result)

-----------------------------------------------------------------------------
\* The notebook run from its first cell to its last.  A statement of a cell
\* is a step: reading the password, creating the driver, a call of
\* session.write_transaction or session.read_transaction, closing the driver.

Step(cell, kind, op, args) == [cell |-> cell, kind |-> kind, op |-> op, args |-> args]

\* The calls of a cell as steps of one kind.
CellSteps(cell, kind, calls) ==
    [i \in 1..Len(calls) |-> Step(cell, kind, calls[i].op, calls[i].args)]

PopulateTreatment ==
    << [op |-> "create_treatment", args |-> <<"T001", "Heart Disease Treatment">>],
       [op |-> "create_medication", args |-> <<"M001", "Aspirin", "100mg daily">>],
       [op |-> "create_medication", args |-> <<"M002", "Beta Blockers", "50mg daily">>],
       [op |-> "link_treatment_medication", args |-> <<"T001", "M001">>],
       [op |-> "link_treatment_medication", args |-> <<"T001", "M002">>],
       [op |-> "link_patient_treatment", args |-> <<"P001", "T001">>] >>

Notebook ==
    << Step("fe1fe271", "env", "os.environ", <<"NEO4J_PASS">>),
       Step("connecting-to-neo4j-code", "driver", "GraphDatabase.driver", <<>>) >>
    \o CellSteps("populating-database-code", "write", PopulatingDatabase)
    \o << Step("find-appointments-code", "read", "get_patient_appointments", <<"P001">>),
          Step("find-patients-code", "read", "get_doctor_patients", <<"D001">>) >>
    \o CellSteps("populate-treatment-code", "write", PopulateTreatment)
    \o << Step("appointment-reminders-code", "write", "set_appointment_reminder",
               <<"A001", FALSE>>),
          Step("doctor-workloads-code", "read", "get_doctor_workload", <<>>),
          Step("closing-connection-code", "close", "driver.close", <<>>) >>

\* The lists f(tx, args) may return for the reading function named c.op.
Query(g, c) ==
    CASE c.op = "get_patient_appointments" -> get_patient_appointments(g, c.args[1])
      [] c.op = "get_doctor_patients" -> get_doctor_patients(g, c.args[1])
      [] c.op = "get_doctor_workload" -> get_doctor_workload(g)

\* What may go wrong in a managed transaction whatever the function does:
\* the engine is not reachable or the connection breaks (ServiceUnavailable),
\* or the engine refuses the password (AuthError).  The driver connects on
\* first use, so either may show at any call.
Failures == {"ServiceUnavailable", "AuthError"}

\* The errors write_transaction and read_transaction answer by running the
\* transaction function again.
Retryable == {"ServiceUnavailable"}

\* The run of a transaction function was cut short by a failure: the
\* function raised, whatever it had done in the transaction.
Cut(out) == [out EXCEPT !.raised = TRUE, !.data = <<>>]

Running == error = None /\ pc \in 1..Len(Notebook)

\* The run of the transaction function that comes next is the first of a
\* call, or one more of the call whose last run raised.
ThisAttempt == IF raised THEN attempts + 1 ELSE 1

\* One run of a writing call's function inside session.write_transaction,
\* to its end (f = None) or cut short by failure f: committed, or rolled back
\* when it raised.
WriteAttempt(g, c, f) ==
    write_transaction(g, IF f = None THEN Apply(g, c) ELSE Cut(Apply(g, c)))

\* One run of a reading call's function inside session.read_transaction,
\* handing back data or cut short by failure f.
ReadAttempt(g, data, f) == IF f = None THEN read_transaction(g, data) ELSE Raise(g)

FlowInit ==
    /\ graph = EmptyGraph
    /\ last = [op |-> "none", args |-> <<>>]
    /\ raised = FALSE
    /\ result = <<>>
    /\ driver = "none"
    /\ pc = 1
    /\ attempts = 0
    /\ error = None

\* A run of the transaction function of the call at pc ended with outcome
\* out; the call is over (next) or will be run again, or exception err leaves
\* the cell and ends the run of the notebook.
Attempted(out, next, err) ==
    /\ graph' = out.graph
    /\ raised' = out.raised
    /\ result' = out.data
    /\ last' = [op |-> Notebook[pc].op, args |-> Notebook[pc].args]
    /\ attempts' = ThisAttempt
    /\ pc' = next
    /\ error' = err
    /\ UNCHANGED driver

\* Neo4j_pass = os.environ['NEO4J_PASS'], the variable set.
LoadPassword ==
    /\ Running /\ Notebook[pc].kind = "env"
    /\ pc' = pc + 1
    /\ UNCHANGED <<graph, last, raised, result, driver, attempts, error>>

\* The same with the variable not set: KeyError, before any driver exists.
PasswordMissing ==
    /\ Running /\ Notebook[pc].kind = "env"
    /\ error' = "KeyError"
    /\ UNCHANGED <<graph, last, raised, result, driver, attempts, pc>>

\* driver = GraphDatabase.driver(uri, auth=...): the object is made, no
\* connection is opened yet.
CreateDriver ==
    /\ Running /\ Notebook[pc].kind = "driver"
    /\ driver' = "open"
    /\ pc' = pc + 1
    /\ UNCHANGED <<graph, last, raised, result, attempts, error>>

\* session.write_transaction(f, args): a run of f that ends and commits.  An
\* error of the statement itself is not retried and leaves the cell.
WriteCommits ==
    /\ Running /\ Notebook[pc].kind = "write"
    /\ LET out == WriteAttempt(graph, Notebook[pc], None)
       IN  IF out.raised THEN Attempted(out, pc, "ClientError")
           ELSE Attempted(out, pc + 1, None)

\* session.read_transaction(f, args): a run of f that ends and returns.
ReadReturns ==
    /\ Running /\ Notebook[pc].kind = "read"
    /\ \E data \in Query(graph, Notebook[pc]) :
          Attempted(ReadAttempt(graph, data, None), pc + 1, None)

\* The outcome of a run of the call at pc that failure f cut short.
CutShort(f) ==
    IF Notebook[pc].kind = "write" THEN WriteAttempt(graph, Notebook[pc], f)
    ELSE ReadAttempt(graph, <<>>, f)

\* A run cut short by a retryable failure while the retry time is not over
\* (it never is at the first failure): the managed transaction will run the
\* function again.
AttemptRetried ==
    /\ Running /\ Notebook[pc].kind \in {"write", "read"}
    /\ ThisAttempt < MaxAttempts
    /\ \E f \in Retryable : Attempted(CutShort(f), pc, None)

\* A run cut short by a failure that is not retryable, or by a retryable one
\* with the retry time over: the exception leaves write_transaction or
\* read_transaction and the with block, and ends the run of the notebook.
AttemptPropagated ==
    /\ Running /\ Notebook[pc].kind \in {"write", "read"}
    /\ \E f \in Failures :
          /\ f \in Retryable => ThisAttempt >= 2
          /\ Attempted(CutShort(f), pc, f)

\* driver.close(), the statement of the last cell.
CloseDriver ==
    /\ Running /\ Notebook[pc].kind = "close"
    /\ driver' = "closed"
    /\ pc' = pc + 1
    /\ UNCHANGED <<graph, last, raised, result, attempts, error>>

FlowNext ==
    \/ LoadPassword
    \/ PasswordMissing
    \/ CreateDriver
    \/ WriteCommits
    \/ ReadReturns
    \/ AttemptRetried
    \/ AttemptPropagated
    \/ CloseDriver

Flow == FlowInit /\ [][FlowNext]_vars

\* The run of the notebook is over: its last statement has run, or an
\* exception has ended it.
Ended == error # None \/ pc > Len(Notebook)

-----------------------------------------------------------------------------
\* C11 (as claimed): the driver is created once, and every run of the
\* notebook in which it was created ends with the driver closed, also a run
\* that a failing call ends before the last cell.  driver.close() is the
\* statement of the last cell and nothing runs it when an exception ends the
\* run earlier, which refutes it.
C11_ClosedAtExit ==
    /\ pc <= 2 => driver = "none"
    /\ (Ended /\ driver # "none") => driver = "closed"

\* C12 (as claimed): the transaction function of a call is run at most once:
\* a failure of the connection during the call leaves the cell at once and
\* the call is not tried again.  session.write_transaction and
\* session.read_transaction are the driver's managed transactions, which run
\* the function again after a retryable failure, which refutes it.
C12_AttemptedOnce == attempts <= 1

\* The store shows the whole effect of writing call c: the entity with the
\* attributes of the call, the relationship between the two entities, the
\* reminder flag with the value of the call.
Done(g, c) ==
    LET a == c.args
        Has(label, id, props) ==
            \E n \in Entity(g, label, id) :
                \A k \in DOMAIN props : PropOf(n, k) = props[k]
        Linked(type, sl, dl) ==
            \E x \in Entity(g, sl, a[1]), y \in Entity(g, dl, a[2]) : Joined(g, type, x, y)
    IN  CASE c.op = "create_patient" ->
                 Has("Patient", a[1], [name |-> a[2], age |-> a[3], contact |-> a[4]])
          [] c.op = "create_doctor" ->
                 Has("Doctor", a[1], [name |-> a[2], specialty |-> a[3]])
          [] c.op = "create_appointment" ->
                 Has("Appointment", a[1], [date |-> a[2], time |-> a[3]])
          [] c.op = "create_treatment" -> Has("Treatment", a[1], [description |-> a[2]])
          [] c.op = "create_medication" ->
                 Has("Medication", a[1], [name |-> a[2], dosage |-> a[3]])
          [] c.op = "link_patient_appointment" ->
                 Linked("HAS_APPOINTMENT", "Patient", "Appointment")
          [] c.op = "link_appointment_doctor" -> Linked("WITH_DOCTOR", "Appointment", "Doctor")
          [] c.op = "link_treatment_medication" ->
                 Linked("INCLUDES_MEDICATION", "Treatment", "Medication")
          [] c.op = "link_patient_treatment" -> Linked("UNDERGOES", "Patient", "Treatment")
          [] c.op = "set_appointment_reminder" ->
                 Has("Appointment", a[1], [reminder_sent |-> a[2]])

\* The store shows some trace of writing call c: its entity, its
\* relationship, or the reminder flag on its appointment.
Touched(g, c) ==
    LET a == c.args
        Linked(type, sl, dl) ==
            \E x \in Entity(g, sl, a[1]), y \in Entity(g, dl, a[2]) : Joined(g, type, x, y)
    IN  CASE c.op = "create_patient" -> Entity(g, "Patient", a[1]) # {}
          [] c.op = "create_doctor" -> Entity(g, "Doctor", a[1]) # {}
          [] c.op = "create_appointment" -> Entity(g, "Appointment", a[1]) # {}
          [] c.op = "create_treatment" -> Entity(g, "Treatment", a[1]) # {}
          [] c.op = "create_medication" -> Entity(g, "Medication", a[1]) # {}
          [] c.op = "link_patient_appointment" ->
                 Linked("HAS_APPOINTMENT", "Patient", "Appointment")
          [] c.op = "link_appointment_doctor" -> Linked("WITH_DOCTOR", "Appointment", "Doctor")
          [] c.op = "link_treatment_medication" ->
                 Linked("INCLUDES_MEDICATION", "Treatment", "Medication")
          [] c.op = "link_patient_treatment" -> Linked("UNDERGOES", "Patient", "Treatment")
          [] c.op = "set_appointment_reminder" ->
                 \E n \in Entity(g, "Appointment", a[1]) : "reminder_sent" \in DOMAIN n.props

\* With the call at position k next to run, or failed: the store shows the
\* whole effect of every writing call before k and no trace of the call at k
\* or of a later one.
EffectsUpTo(g, k) ==
    \A i \in 1..Len(Notebook) :
        Notebook[i].kind = "write" =>
            IF i < k THEN Done(g, Notebook[i]) ELSE ~Touched(g, Notebook[i])

\* C15: the calls of the notebook run one after another, each its own unit of
\* work.  Every step stays at the call it ran or moves to the next one; after
\* every step, and so when the k-th call has failed, the store holds the
\* whole effect of the k-1 calls before it (nothing is rolled back across
\* calls) and no trace of the k-th call or of a later one; and once an
\* exception has left the cell no further call is made.
C15_UnitOfWork ==
    [][/\ error = None
       /\ pc' \in {pc, pc + 1}
       /\ EffectsUpTo(graph', pc')]_vars

\* The seventh call of the population cell has failed for good: the exception
\* ended the run with the six entities in the store and no relationship.
C15_Witness ==
    /\ error \in Failures
    /\ raised
    /\ last = [op |-> "link_patient_appointment", args |-> <<"P001", "A001">>]
    /\ Notebook[pc].cell = "populating-database-code"
    /\ Cardinality(graph.nodes) = 6
    /\ graph.rels = {}

====
